---- MODULE Spec2Model ----
(***************************************************************************)
(* A state-machine model of gui/elements/image_container.py:               *)
(* ImageContainer binds an image array and its metadata to a visual node.  *)
(* Every public method and property accessor is one action; the record     *)
(* `last` is a history variable holding the most recent call, its outcome  *)
(* and the calls it made on the visual.                                    *)
(***************************************************************************)
EXTENDS Integers, Sequences, FiniteSets, TLC

\* ------------------------------------------------------------- bounds
\* Largest axis length of a modelled array.
MaxDim == 3
\* Largest z-index / vector component handed to the transform accessors.
MaxZ == 2
\* Interpolation indices are drawn from -MaxInterp .. MaxInterp.
MaxInterp == 5
\* Transparency values are the multiples of 1/TSteps; 1.0 is TSteps steps.
TSteps == 2

\* ------------------------------------------------------------- values
Min(a, b) == IF a < b THEN a ELSE b

\* An array is known by its shape (ranks 1 and 2).
Shapes == {<<2>>, <<MaxDim>>, <<2, MaxDim>>, <<MaxDim, 2>>}
Images == [shape : Shapes]

\* A metadata mapping: the 'itype' key is absent or holds a tag.
Metas == [itype : {"absent", "multi"}]
NoMeta == [itype |-> "None"]

\* Index sequences: a list (mutable) or a tuple (immutable) of integers,
\* the Ellipsis sentinel, or no `indices` attribute at all.
IdxVals == {-(MaxDim + 1), 1, MaxDim}
IdxSeqs == UNION {[1..n -> IdxVals] : n \in 0..2}
Unset == [kind |-> "unset", items |-> <<>>]
Ellipsis == [kind |-> "ellipsis", items |-> <<>>]
IndexArgs == {Ellipsis} \cup [kind : {"list", "tuple"}, items : IdxSeqs]

NoData == [whole |-> FALSE, src |-> [shape |-> <<>>], at |-> <<>>]

VARIABLES image, meta, indices, visual_data, visual_need_colortransform_update,
          visual_interpolation, visual_clim, visual_cmap, visual_method,
          visual_transform, alpha, interpolation_index, last

vars == <<image, meta, indices, visual_data, visual_need_colortransform_update,
          visual_interpolation, visual_clim, visual_cmap, visual_method,
          visual_transform, alpha, interpolation_index, last>>

dataVars == <<image, meta, indices, visual_data,
              visual_need_colortransform_update>>
displayVars == <<visual_interpolation, visual_clim, visual_cmap, visual_method,
                 alpha, interpolation_index>>

\* The record of a call: the operation, its arguments, how it ended, the
\* calls it made on the visual, the index tuple it applied, what it returned.
Call(op, args, result, calls, applied, ret) ==
    [op |-> op, args |-> args, result |-> result, calls |-> calls,
     applied |-> applied, ret |-> ret]

\* ------------------------------------------------------ util helpers
is_multichannel(m) == m.itype = "multi"

guess_multichannel(shape) == shape[Len(shape)] \in {3, 4}

data_ndim(img) == Len(img.shape)

image_ndim(img, m) == data_ndim(img) - (IF is_multichannel(m) THEN 1 ELSE 0)

\* --------------------------------------------------- set_view_slice
\* indices[:ndim]
truncate(items, ndim) == SubSeq(items, 1, Min(Len(items), ndim))

\* One pass of the clamping loop body: the entry left at position dim.  The
\* item assignment of a tuple raises TypeError, which the handler swallows.
clamp(kind, entry, max_dim_index) ==
    IF entry > max_dim_index
    THEN IF kind = "list" THEN max_dim_index ELSE entry
    ELSE entry

\* The index tuple handed to the array: truncated, then clamped per axis.
applied_indices(img, m, ind) ==
    LET cut == truncate(ind.items, image_ndim(img, m))
    IN [d \in 1..Len(cut) |-> clamp(ind.kind, cut[d], img.shape[d] - 1)]

\* Array indexing with a tuple of integers: each must lie in -n .. n-1.
index_ok(img, idx) ==
    \A d \in 1..Len(idx) : -img.shape[d] <= idx[d] /\ idx[d] < img.shape[d]

\* The sub-array image[tuple(idx)], negative entries counted from the end.
getitem(img, idx) ==
    [whole |-> FALSE, src |-> img,
     at |-> [d \in 1..Len(idx) |->
               IF idx[d] < 0 THEN idx[d] + img.shape[d] ELSE idx[d]]]

whole_image(img) == [whole |-> TRUE, src |-> img, at |-> <<>>]

\* view_slice with a fallback: a failing index shows the whole array.
view_slice_fallback(img, m, ind) ==
    IF ind.kind = "ellipsis" \/ ~index_ok(img, applied_indices(img, m, ind))
    THEN [result |-> IF ind.kind = "ellipsis" THEN "ok" ELSE "IndexError",
          applied |-> <<>>, data |-> whole_image(img),
          calls |-> <<"set_data", "update">>]
    ELSE [result |-> "ok", applied |-> applied_indices(img, m, ind),
          data |-> getitem(img, applied_indices(img, m, ind)),
          calls |-> <<"set_data", "update">>]

\* The body of set_view_slice after `self.indices = indices`: what reaches
\* the visual, and how the call ends.
view_slice(img, m, ind) ==
    IF ind.kind = "ellipsis"
    THEN [result |-> "ok", applied |-> <<>>, data |-> whole_image(img),
          calls |-> <<"set_data", "update">>]
    ELSE LET idx == applied_indices(img, m, ind)
         IN IF index_ok(img, idx)
            THEN [result |-> "ok", applied |-> idx, data |-> getitem(img, idx),
                  calls |-> <<"set_data", "update">>]
            ELSE [result |-> "IndexError", applied |-> idx,
                  data |-> visual_data, calls |-> <<>>]

set_view_slice(ind) ==
    LET o == view_slice(image, meta, ind)
    IN /\ indices' = ind
       /\ visual_data' = o.data
       /\ last' = Call("set_view_slice", <<>>, o.result, o.calls,
                       o.applied, <<>>)
       /\ UNCHANGED <<image, meta, visual_need_colortransform_update,
                      displayVars, visual_transform>>

\* refresh() on a container whose image and metadata are img and m: the
\* stale flag is raised first; reading self.indices fails when
\* set_view_slice never stored it.
refresh_outcome(img, m) ==
    IF indices.kind = "unset"
    THEN [result |-> "AttributeError", applied |-> <<>>,
          data |-> visual_data, calls |-> <<>>]
    ELSE view_slice(img, m, indices)

\* tag that also clears the tag when the flag is false.
tag_overwrite(m, multichannel) ==
    [m EXCEPT !.itype = IF multichannel THEN "multi" ELSE "absent"]

\* The metadata after the tagging step of set_image.
tag(m, multichannel) == IF multichannel THEN [m EXCEPT !.itype = "multi"] ELSE m

\* resolve_multichannel testing `not multichannel` instead of `is None`.
resolve_multichannel_falsy(img, multichannel) ==
    IF multichannel # "True" THEN guess_multichannel(img.shape) ELSE TRUE

\* multichannel is "None", "True" or "False"; None asks the heuristic.
resolve_multichannel(img, multichannel) ==
    IF multichannel = "None" THEN guess_multichannel(img.shape)
    ELSE multichannel = "True"

set_image(img, m, multichannel) ==
    LET kept == IF m = NoMeta THEN meta ELSE m
        new == tag(kept, resolve_multichannel(img, multichannel))
        o == refresh_outcome(img, new)
    IN /\ image' = img
       /\ meta' = new
       /\ visual_need_colortransform_update' = TRUE
       /\ visual_data' = o.data
       /\ last' = Call("set_image", <<m, multichannel>>, o.result,
                       o.calls, o.applied, <<>>)
       /\ UNCHANGED <<indices, displayVars, visual_transform>>

update ==
    /\ last' = Call("update", <<>>, "ok", <<"update">>, <<>>, <<>>)
    /\ UNCHANGED <<dataVars, displayVars, visual_transform>>

refresh ==
    LET o == refresh_outcome(image, meta)
    IN /\ visual_need_colortransform_update' = TRUE
       /\ visual_data' = o.data
       /\ last' = Call("refresh", <<>>, o.result, o.calls, o.applied, <<>>)
       /\ UNCHANGED <<image, meta, indices, displayVars, visual_transform>>

set_image_property(img) ==
    LET o == refresh_outcome(img, meta)
    IN /\ image' = img
       /\ visual_need_colortransform_update' = TRUE
       /\ visual_data' = o.data
       /\ last' = Call("image.setter", <<>>, o.result, o.calls,
                       o.applied, <<>>)
       /\ UNCHANGED <<meta, indices, displayVars, visual_transform>>

set_meta_property(m) ==
    LET o == refresh_outcome(image, m)
    IN /\ meta' = m
       /\ visual_need_colortransform_update' = TRUE
       /\ visual_data' = o.data
       /\ last' = Call("meta.setter", <<>>, o.result, o.calls,
                       o.applied, <<>>)
       /\ UNCHANGED <<image, indices, displayVars, visual_transform>>

\* The rendering library's draw pass rebuilds the colour transform and
\* lowers the stale flag.
draw ==
    /\ visual_need_colortransform_update
    /\ visual_need_colortransform_update' = FALSE
    /\ last' = Call("draw", <<>>, "ok", <<>>, <<>>, <<>>)
    /\ UNCHANGED <<image, meta, indices, visual_data, displayVars,
                   visual_transform>>

\* ----------------------------------------------------- interpolation
\* The table of interpolation names the helpers of ..util index into.
interpolation_names == <<"bicubic", "bilinear", "nearest", "spline16">>

NameArgs == {interpolation_names[i] : i \in DOMAIN interpolation_names}
                \cup {"unknown"}

\* interpolation_index_to_name, for a 0-based index.
index_to_name(i) == interpolation_names[i + 1]

\* interpolation_name_to_index: the 0-based position of a known name.
name_to_index(name) ==
    (CHOOSE i \in DOMAIN interpolation_names : interpolation_names[i] = name) - 1

name_known(name) == \E i \in DOMAIN interpolation_names : interpolation_names[i] = name

\* wrap_index taking the remainder of the magnitude.
wrap_index_magnitude(i) == (IF i < 0 THEN -i ELSE i) % Len(interpolation_names)

\* interpolation_index % len(interpolation_names)
wrap_index(i) == i % Len(interpolation_names)

set_interpolation_index(i) ==
    /\ interpolation_index' = wrap_index(i)
    /\ visual_interpolation' = index_to_name(wrap_index(i))
    /\ last' = Call("interpolation_index.setter", <<i>>, "ok", <<>>, <<>>, <<>>)
    /\ UNCHANGED <<dataVars, visual_clim, visual_cmap, visual_method, alpha,
                   visual_transform>>

\* The interpolation getter: the name at the stored index.
interpolation == index_to_name(interpolation_index)

set_interpolation(name) ==
    IF name_known(name)
    THEN /\ interpolation_index' = wrap_index(name_to_index(name))
         /\ visual_interpolation' = index_to_name(wrap_index(name_to_index(name)))
         /\ last' = Call("interpolation.setter", <<name>>, "ok", <<>>, <<>>, <<>>)
         /\ UNCHANGED <<dataVars, visual_clim, visual_cmap, visual_method,
                        alpha, visual_transform>>
    ELSE /\ last' = Call("interpolation.setter", <<name>>, "ValueError", <<>>,
                         <<>>, <<>>)
         /\ UNCHANGED <<dataVars, displayVars, visual_transform>>

\* ------------------------------------------------------ transparency
\* transparency_valid with the upper bound excluded.
transparency_valid_open(t) == 0 <= t /\ t < TSteps

\* The guard of the setter: not 0.0 <= transparency <= 1.0 raises.
transparency_valid(t) == 0 <= t /\ t <= TSteps

\* The transparency getter.
transparency == alpha

set_transparency(t) ==
    IF transparency_valid(t)
    THEN /\ alpha' = t
         /\ last' = Call("transparency.setter", <<t>>, "ok", <<"update">>,
                         <<>>, <<>>)
         /\ UNCHANGED <<dataVars, visual_interpolation, visual_clim,
                        visual_cmap, visual_method, interpolation_index,
                        visual_transform>>
    ELSE /\ last' = Call("transparency.setter", <<t>>, "ValueError", <<>>,
                         <<>>, <<>>)
         /\ UNCHANGED <<dataVars, displayVars, visual_transform>>

\* ----------------------------------------------- visual pass-throughs
Clims == {"auto", "(0, 1)"}
Cmaps == {"gray", "viridis"}
Methods == {"auto", "subdivide", "impostor"}

\* The clim setter is declared with no value parameter: the assignment
\* calls it with two arguments and raises TypeError before its body runs.
set_clim(v) ==
    /\ last' = Call("clim.setter", <<v>>, "TypeError", <<>>, <<>>, <<>>)
    /\ UNCHANGED <<dataVars, displayVars, visual_transform>>

set_cmap(v) ==
    /\ visual_cmap' = v
    /\ last' = Call("cmap.setter", <<v>>, "ok", <<>>, <<>>, <<>>)
    /\ UNCHANGED <<dataVars, visual_interpolation, visual_clim, visual_method,
                   alpha, interpolation_index, visual_transform>>

\* The method setter is declared with no value parameter, like clim's.
set_method(v) ==
    /\ last' = Call("method.setter", <<v>>, "TypeError", <<>>, <<>>, <<>>)
    /\ UNCHANGED <<dataVars, displayVars, visual_transform>>

\* --------------------------------------------------------- transform
\* as_vec4 of the transform library: pad a vector to four components.
as_vec4(v, default) == [i \in 1..4 |-> IF i <= Len(v) THEN v[i] ELSE default]

\* STTransform(scale, translate)
STTransform(scale, translate) ==
    [kind |-> "STTransform", scale |-> as_vec4(scale, 1),
     translate |-> as_vec4(translate, 0)]

MatrixTransform == [kind |-> "MatrixTransform", scale |-> <<>>, translate |-> <<>>]
NoTransform == [kind |-> "None", scale |-> <<>>, translate |-> <<>>]

VecArgs == {<<1, 1>>, <<2, 1, MaxZ>>, <<0, -1, -MaxZ, 1>>}
ZArgs == -MaxZ..MaxZ
TransformArgs == {NoTransform, MatrixTransform, STTransform(<<>>, <<>>),
                  STTransform(<<2, 2>>, <<1, 0, 1>>)}

\* The transform setter: None is replaced by a default STTransform().
transform_to_store(tf) == IF tf = NoTransform THEN STTransform(<<>>, <<>>) ELSE tf

set_transform(tf) ==
    /\ visual_transform' = transform_to_store(tf)
    /\ last' = Call("transform.setter", <<tf>>, "ok", <<>>, <<>>, <<>>)
    /\ UNCHANGED <<dataVars, displayVars>>

\* is_STTransform accepting every transform object.
is_STTransform_any(tf) == tf.kind # "None"

\* _error_if_not_STTransform: TRUE when it returns without raising.
is_STTransform(tf) == tf.kind = "STTransform"

\* An accessor that found another transform kind: nothing is touched.
st_type_error(op, args) ==
    /\ last' = Call(op, args, "TypeError", <<>>, <<>>, <<>>)
    /\ UNCHANGED <<dataVars, displayVars, visual_transform>>

\* An accessor that only reads the transform.
st_read(op, value) ==
    /\ last' = Call(op, <<>>, "ok", <<>>, <<>>, value)
    /\ UNCHANGED <<dataVars, displayVars, visual_transform>>

get_scale ==
    IF is_STTransform(visual_transform)
    THEN st_read("scale.getter", visual_transform.scale)
    ELSE st_type_error("scale.getter", <<>>)

set_scale(vec) ==
    IF is_STTransform(visual_transform)
    THEN /\ visual_transform' =
               [visual_transform EXCEPT !.scale = as_vec4(vec, 1)]
         /\ last' = Call("scale.setter", <<vec>>, "ok", <<>>, <<>>, <<>>)
         /\ UNCHANGED <<dataVars, displayVars>>
    ELSE st_type_error("scale.setter", <<vec>>)

get_translate ==
    IF is_STTransform(visual_transform)
    THEN st_read("translate.getter", visual_transform.translate)
    ELSE st_type_error("translate.getter", <<>>)

set_translate(vec) ==
    IF is_STTransform(visual_transform)
    THEN /\ visual_transform' =
               [visual_transform EXCEPT !.translate = as_vec4(vec, 0)]
         /\ last' = Call("translate.setter", <<vec>>, "ok", <<>>, <<>>, <<>>)
         /\ UNCHANGED <<dataVars, displayVars>>
    ELSE st_type_error("translate.setter", <<vec>>)

\* -self.translate[2], through the translate getter and its check.
z_index_of(tf) == -tf.translate[3]

get_z_index ==
    IF is_STTransform(visual_transform)
    THEN st_read("z_index.getter", <<z_index_of(visual_transform)>>)
    ELSE st_type_error("z_index.getter", <<>>)

\* z_translate storing the index without negating it.
z_translate_plain(translate, index) == [translate EXCEPT ![3] = index]

\* tl = tf._translate; tl[2] = -index
z_translate(translate, index) == [translate EXCEPT ![3] = -index]

set_z_index(index) ==
    IF is_STTransform(visual_transform)
    THEN /\ visual_transform' =
               [visual_transform EXCEPT
                   !.translate = z_translate(visual_transform.translate, index)]
         /\ last' = Call("z_index.setter", <<index>>, "ok", <<>>, <<>>, <<>>)
         /\ UNCHANGED <<dataVars, displayVars>>
    ELSE st_type_error("z_index.setter", <<index>>)

\* ------------------------------------------------------ construction
\* __init__(image, meta, viewer): no `indices` attribute is created; the
\* visual is built with no data, alpha 1.0, interpolation 'nearest' and a
\* default STTransform.
Init ==
    /\ image \in Images
    /\ meta \in Metas
    /\ indices = Unset
    /\ visual_data = NoData
    /\ visual_need_colortransform_update = TRUE
    /\ alpha = TSteps
    /\ interpolation_index = wrap_index(name_to_index("nearest"))
    /\ visual_interpolation = index_to_name(wrap_index(name_to_index("nearest")))
    /\ visual_clim = "auto"
    /\ visual_cmap = "cubehelix"
    /\ visual_method = "auto"
    /\ visual_transform = transform_to_store(STTransform(<<>>, <<>>))
    /\ last = Call("__init__", <<>>, "ok", <<>>, <<>>, <<>>)

\* ---------------------------------------------------- specifications
NextData ==
    \/ \E ind \in IndexArgs : set_view_slice(ind)
    \/ \E img \in Images, m \in Metas \cup {NoMeta},
          mc \in {"None", "True", "False"} : set_image(img, m, mc)
    \/ update
    \/ refresh
    \/ \E img \in Images : set_image_property(img)
    \/ \E m \in Metas : set_meta_property(m)
    \/ draw

NextDisplay ==
    \/ \E i \in -MaxInterp..MaxInterp : set_interpolation_index(i)
    \/ \E name \in NameArgs : set_interpolation(name)
    \/ \E t \in -1..(TSteps + 1) : set_transparency(t)
    \/ \E v \in Clims : set_clim(v)
    \/ \E v \in Cmaps : set_cmap(v)
    \/ \E v \in Methods : set_method(v)

NextTransform ==
    \/ \E tf \in TransformArgs : set_transform(tf)
    \/ get_scale
    \/ \E vec \in VecArgs : set_scale(vec)
    \/ get_translate
    \/ \E vec \in VecArgs : set_translate(vec)
    \/ get_z_index
    \/ \E index \in ZArgs : set_z_index(index)

Next == NextData \/ NextDisplay \/ NextTransform

Spec == Init /\ [][Next]_vars

\* The three groups of operations touch disjoint parts of the state (the
\* array and its slice; the display attributes; the transform), so each
\* group is also explored on its own.
SpecData == Init /\ [][NextData]_vars
SpecDisplay == Init /\ [][NextDisplay]_vars
SpecTransform == Init /\ [][NextTransform]_vars

\* ============================================================ claims
Refreshers == {"set_image", "image.setter", "meta.setter"}
STAccessors == {"scale.getter", "scale.setter", "translate.getter",
                "translate.setter", "z_index.getter", "z_index.setter"}
DefaultSTTransform ==
    [kind |-> "STTransform", scale |-> <<1, 1, 1, 1>>,
     translate |-> <<0, 0, 0, 0>>]

\* C1: in every state after construction, setting the image or the meta
\* property refreshes: it succeeds, raises the stale flag, keeps the stored
\* indices and hands the visual a slice of the current image followed by an
\* update request.
C1_SetterRefreshes ==
    last.op \in {"image.setter", "meta.setter"} =>
        /\ last.result = "ok"
        /\ visual_need_colortransform_update
        /\ last.calls = <<"set_data", "update">>
        /\ visual_data.src = image

\* C2: for every sequence of integer indices given to set_view_slice, the
\* tuple applied to the array is the first image_ndim entries, entry d
\* replaced by min(entry, shape[d] - 1).
C2_ClampedIndices ==
    (last.op = "set_view_slice" /\ indices.kind \in {"list", "tuple"}) =>
        LET n == Len(image.shape) - (IF meta.itype = "multi" THEN 1 ELSE 0)
            k == Min(Len(indices.items), n)
        IN last.applied =
               [d \in 1..k |-> Min(indices.items[d], image.shape[d] - 1)]

\* C2 restricted to lists: the clamping as the claim states it holds when
\* the sequence supports item assignment.
C2_ListClamped ==
    (last.op = "set_view_slice" /\ indices.kind = "list") =>
        LET n == Len(image.shape) - (IF meta.itype = "multi" THEN 1 ELSE 0)
            k == Min(Len(indices.items), n)
        IN last.applied =
               [d \in 1..k |-> Min(indices.items[d], image.shape[d] - 1)]

\* C3: setting clim, cmap, method or transform to a value succeeds and
\* stores the value in the visual's attribute of the same name.
C3_PassThrough ==
    /\ last.op = "clim.setter" =>
           (last.result = "ok" /\ visual_clim = last.args[1])
    /\ last.op = "cmap.setter" =>
           (last.result = "ok" /\ visual_cmap = last.args[1])
    /\ last.op = "method.setter" =>
           (last.result = "ok" /\ visual_method = last.args[1])
    /\ (last.op = "transform.setter" /\ last.args[1] # NoTransform) =>
           (last.result = "ok" /\ visual_transform = last.args[1])

\* C4: a transparency t in [0, 1] is stored, read back and followed by one
\* update request; any other t fails with ValueError, keeps the stored alpha
\* and requests no update; the stored alpha is always in [0, 1].
C4_Transparency ==
    /\ [](0 <= alpha /\ alpha <= TSteps)
    /\ [][last'.op = "transparency.setter" =>
            LET t == last'.args[1]
            IN IF 0 <= t /\ t <= TSteps
               THEN /\ last'.result = "ok"
                    /\ alpha' = t
                    /\ transparency' = t
                    /\ last'.calls = <<"update">>
               ELSE /\ last'.result = "ValueError"
                    /\ alpha' = alpha
                    /\ last'.calls = <<>>]_vars

C4_Witness ==
    /\ last.op = "transparency.setter"
    /\ last.result = "ValueError"
    /\ last.args[1] > TSteps
    /\ alpha # TSteps

\* C5: set_image tags the metadata it keeps (the one given, else the stored
\* one) as 'multi' exactly when multichannel is True, or is None and the
\* shape matches the heuristic; with explicit False it writes no tag.
C5_MultichannelTag ==
    [][last'.op = "set_image" =>
         LET m == last'.args[1]
             mc == last'.args[2]
             kept == IF m = NoMeta THEN meta ELSE m
             tagged == \/ mc = "True"
                       \/ mc = "None" /\ guess_multichannel(image'.shape)
         IN meta' = IF tagged THEN [itype |-> "multi"] ELSE kept]_vars

C5_Witness ==
    /\ last.op = "set_image"
    /\ last.args[1] = [itype |-> "absent"]
    /\ last.args[2] = "False"
    /\ guess_multichannel(image.shape)
    /\ meta.itype = "absent"

C7_TypeMismatch ==
    /\ [][last'.op \in STAccessors =>
            IF visual_transform.kind # "STTransform"
            THEN /\ last'.result = "TypeError"
                 /\ last'.ret = <<>>
                 /\ UNCHANGED <<visual_transform, dataVars, displayVars>>
            ELSE last'.result = "ok"]_vars
    /\ [][(last'.op = "transform.setter" /\ last'.args[1] = NoTransform) =>
            visual_transform' = DefaultSTTransform]_vars

C7_Witness ==
    /\ last.op = "z_index.setter"
    /\ last.result = "TypeError"
    /\ visual_transform = MatrixTransform

\* C8: interpolation_index set to i reads back i mod N; interpolation set to
\* a known name reads back that name; always 0 <= interpolation_index < N
\* and the visual's interpolation is the name at that index.
C8_Interpolation ==
    LET N == Len(interpolation_names)
    IN /\ 0 <= interpolation_index /\ interpolation_index < N
       /\ visual_interpolation = interpolation_names[interpolation_index + 1]
       /\ last.op = "interpolation_index.setter" =>
              \E q \in -(MaxInterp + 1)..(MaxInterp + 1) :
                  last.args[1] = q * N + interpolation_index
       /\ (last.op = "interpolation.setter" /\ last.result = "ok") =>
              interpolation = last.args[1]

C8_Witness ==
    /\ last.op = "interpolation_index.setter"
    /\ last.args[1] = -1
    /\ interpolation_index = Len(interpolation_names) - 1

C9_IndexErrorRollsBack ==
    [][(last'.op \in Refreshers \cup {"set_view_slice"}
            /\ last'.result = "IndexError" /\ indices'.kind = "list") =>
         UNCHANGED dataVars]_vars

C10_StickyTag ==
    /\ [][(last'.op = "set_image" /\ last'.args[1] = NoMeta
               /\ meta.itype = "multi") =>
            /\ meta'.itype = "multi"
            /\ image_ndim(image', meta') = Len(image'.shape) - 1]_vars
    /\ [][(meta.itype = "multi" /\ meta'.itype # "multi") =>
            \/ last'.op = "meta.setter"
            \/ last'.op = "set_image" /\ last'.args[1] # NoMeta]_vars

C10_Witness ==
    /\ last.op = "set_image"
    /\ last.args = <<NoMeta, "False">>
    /\ ~guess_multichannel(image.shape)
    /\ meta.itype = "multi"
    /\ last.result = "ok"

====
